---- MODULE Spec2Model ----
(***************************************************************************)
(* TxFlow message DAG (core/txflow/src/dag/mod.rs): ingest of messages     *)
(* received from other nodes, fork detection, misbehaviour reporting and   *)
(* synthesis of the owner's root message.                                  *)
(*                                                                         *)
(* Message (message.rs) and MisbehaviourReporter (reporter.rs) are used by *)
(* mod.rs but are not part of the sources at hand; the operators that      *)
(* stand for them (compute_hash, compute_epoch, report, the set semantics  *)
(* of messages and roots) follow the design document.                      *)
(***************************************************************************)
EXTENDS Integers, Sequences, FiniteSets, Bags, TLC

\* ---------------------------------------------------------------- bounds
MaxArena == 3        \* at most this many nodes are ever allocated

\* The participants that send messages.
UIDs == {0, 1}

\* The participant whose messages may arrive with a wrong epoch and with any
\* value in the hash field; the other bodies claim epoch 0 and carry their
\* digest.
Byzantine == {1}

\* The epochs a body of a participant may claim.
ClaimedEpochs(uid) == IF uid \in Byzantine THEN {0, 1} ELSE {0}

VARIABLES owner_uid, starting_epoch, arena, messages, roots, misbehaviour,
          participant_head, result, rejected

\* A second DAG, of a peer that is fed the same messages in another order, with
\* the record of what was fed to each of the two.
VARIABLES peer, feed

pair_vars == <<peer, feed>>

\* A NibbleSlice (core/storage/src/nibble_slice.rs) and the last call made on
\* it, with what the call was given and what it returned.
VARIABLES slice, call

nibble_vars == <<slice, call>>

\* The call of add_existing_message that is inside the loop of find_fork:
\* where it stands, what it was given, and the locals of find_fork.
VARIABLE search

\* What a call on a nibble slice leaves alone: the DAGs.
dag_vars == <<owner_uid, starting_epoch, arena, messages, roots, misbehaviour,
              participant_head, result, rejected, peer, feed, search>>

vars == <<owner_uid, starting_epoch, arena, messages, roots, misbehaviour,
          participant_head, result, rejected, peer, feed, slice, call, search>>

\* ------------------------------------------------------------- data model
\* MessageDataBody as the DAG sees it; payload and endorsements are opaque
\* to the DAG and are left out of the body.
MessageDataBody(uid, parents, epoch) ==
    [owner_uid |-> uid, parents |-> parents, epoch |-> epoch]

SignedMessageData(hash, body) == [hash |-> hash, body |-> body]

\* StructHash of a body: a digest that is determined by the body and is
\* different for different bodies.
compute_hash(body) == <<body.owner_uid, body.epoch, body.parents>>

\* A StructHash that is the digest of no body at all.
BogusHash == <<2, 0, {}>>

\* The hashes under which a set of nodes is keyed.
Hashes(nodes) == {n.computed_hash : n \in nodes}

\* HashSet<&Message>::contains / get / insert / remove; a node is hashed and
\* compared by its computed_hash.
contains(nodes, hash) == hash \in Hashes(nodes)

get(nodes, hash) == {n \in nodes : n.computed_hash = hash}

insert(nodes, node) ==
    IF contains(nodes, node.computed_hash) THEN nodes ELSE nodes \cup {node}

remove(nodes, node) == {n \in nodes : n.computed_hash # node.computed_hash}

RECURSIVE remove_all(_, _)
remove_all(nodes, ps) ==
    IF ps = {} THEN nodes
    ELSE LET p == CHOOSE x \in ps : TRUE
         IN remove_all(remove(nodes, p), ps \ {p})

\* Arena::alloc: the arena owns every node ever allocated and is never
\* walked, so it is the bag of its nodes.
alloc(nodes, node) == nodes (+) SetToBag({node})

\* HashMap<UID, StructHash>::insert
head_insert(head, uid, hash) ==
    [u \in (DOMAIN head) \cup {uid} |-> IF u = uid THEN hash ELSE head[u]]

\* FakeWitnessSelector: epoch e is witnessed by e, e+1, e+2, e+3.
epoch_witnesses(epoch) == epoch .. (epoch + 3)

MaxOf(S) == CHOOSE x \in S : \A y \in S : y <= x

\* Message::init, epoch part: the largest epoch among starting_epoch and the
\* parents, advanced by one when more than two thirds of the witnesses of
\* that epoch own a parent of that epoch.
compute_epoch(parents, start) ==
    LET base == MaxOf({start} \cup {p.computed_epoch : p \in parents})
        owners == {p.data.body.owner_uid :
                      p \in {q \in parents : q.computed_epoch = base}}
        seen == owners \cap epoch_witnesses(base)
    IN IF 3 * Cardinality(seen) > 2 * Cardinality(epoch_witnesses(base))
       THEN base + 1 ELSE base

\* Message::new followed by Message::init: the node with its derived fields.
\* The parents of a node are the nodes of `messages` its body names.
Message(data, parents, start) ==
    [data |-> data,
     computed_hash |-> compute_hash(data.body),
     computed_epoch |-> compute_epoch(parents, start)]

\* Message::assume_computed_hash_epoch
assume_computed_hash_epoch(m) ==
    [m EXCEPT !.data.hash = m.computed_hash,
              !.data.body.epoch = m.computed_epoch]

\* The DAG as the methods see it through self.
Self ==
    [owner_uid |-> owner_uid, starting_epoch |-> starting_epoch,
     arena |-> arena, messages |-> messages, roots |-> roots,
     misbehaviour |-> misbehaviour, participant_head |-> participant_head]

\* ViolationType
BadEpoch(hash) == [type |-> "BadEpoch", message |-> hash]
ForkAttempt(h0, h1) == [type |-> "ForkAttempt", message_0 |-> h0, message_1 |-> h1]

\* MisbehaviourReporter::report
report(log, mb) == Append(log, mb)


Range(seq) == {seq[i] : i \in 1 .. Len(seq)}

\* The orders in which a HashSet with the elements S can be iterated.
Orders(S) ==
    {seq \in [1 .. Cardinality(S) -> S] : Range(seq) = S}

\* ------------------------------------------------------------ find_fork
\* The loop gone wrong: the first message of the owner that is met decides,
\* so that the outcome depends on the order in which the parents are walked.
bfs_first_own(queue, visited, uid, last_hash) ==
    LET own == SelectSeq(queue, LAMBDA m : m.data.body.owner_uid = uid)
    IN IF Len(own) > 0 /\ Head(own).computed_hash = last_hash
       THEN {}
       ELSE {last_hash}

\* The while loop of find_fork: Some(h) is {h}, None is {}.
RECURSIVE bfs(_, _, _, _)
bfs(queue, visited, uid, last_hash) ==
    IF Len(queue) = 0
    THEN {last_hash}
    ELSE LET cur_message == Head(queue)
             rest == Tail(queue)
         IN IF cur_message.data.body.owner_uid = uid
            THEN IF cur_message.computed_hash = last_hash
                 THEN {}
                 ELSE bfs(rest, visited, uid, last_hash)
            ELSE IF cur_message.computed_hash \in visited
                 THEN bfs(rest, visited, uid, last_hash)
                 ELSE bfs(Append(rest, cur_message),
                          visited \cup {cur_message.computed_hash},
                          uid, last_hash)

\* Fork detection gone wrong: any parent of the owner's own clears the
\* message, the head or not.
find_fork_any_own_parent(head, message, parents) ==
    LET uid == message.data.body.owner_uid
    IN IF uid \in DOMAIN head
          /\ \A i \in 1 .. Len(parents) : parents[i].data.body.owner_uid # uid
       THEN {head[uid]}
       ELSE {}

\* Fork detection gone wrong: a message without parents is never a fork.
find_fork_needs_parent(head, message, parents) ==
    LET uid == message.data.body.owner_uid
    IN IF uid \in DOMAIN head /\ Len(parents) > 0
       THEN bfs(parents, Hashes(Range(parents)), uid, head[uid])
       ELSE {}

\* find_fork(message): parents is message.parents in iteration order.
find_fork(head, message, parents) ==
    LET uid == message.data.body.owner_uid
    IN IF uid \in DOMAIN head
       THEN bfs(parents, Hashes(Range(parents)), uid, head[uid])
       ELSE {}

\* Verification gone wrong: a fork report replaces what the log held.
verify_message_overwrite(self, message, parents) ==
    LET log0 == self.misbehaviour
        log1 == IF message.computed_epoch # message.data.body.epoch
                THEN report(log0, BadEpoch(message.computed_hash))
                ELSE log0
        fork_message == find_fork(self.participant_head, message, parents)
    IN IF fork_message # {}
       THEN <<ForkAttempt(CHOOSE h \in fork_message : TRUE, message.computed_hash)>>
       ELSE log1

\* Verification gone wrong: the bad epoch is filed under the hash the sender
\* claimed instead of the hash computed locally.
verify_message_claimed_hash(self, message, parents) ==
    LET log0 == self.misbehaviour
        log1 == IF message.computed_epoch # message.data.body.epoch
                THEN report(log0, BadEpoch(message.data.hash))
                ELSE log0
        fork_message == find_fork(self.participant_head, message, parents)
    IN IF fork_message # {}
       THEN report(log1, ForkAttempt(CHOOSE h \in fork_message : TRUE,
                                     message.computed_hash))
       ELSE log1

\* verify_message: the misbehaviour log after the checks.
verify_message(self, message, parents) ==
    LET log0 == self.misbehaviour
        log1 == IF message.computed_epoch # message.data.body.epoch
                THEN report(log0, BadEpoch(message.computed_hash))
                ELSE log0
        fork_message == find_fork(self.participant_head, message, parents)
    IN IF fork_message # {}
       THEN report(log1, ForkAttempt(CHOOSE h \in fork_message : TRUE,
                                     message.computed_hash))
       ELSE log1

\* ------------------------------------------------- add_existing_message
\* The parent check gone wrong: satisfied as soon as one parent resolves.
parents_known_some(nodes, parent_hashes) ==
    \/ parent_hashes = {}
    \/ \E p_hash \in parent_hashes : contains(nodes, p_hash)

\* Lines 168-174: every parent hash resolves to a node of messages.
parents_known(nodes, parent_hashes) ==
    \A p_hash \in parent_hashes : contains(nodes, p_hash)

\* Lines 168-170: the nodes the parent hashes resolve to, in the order walked.
resolve(nodes, order) ==
    LET found == SelectSeq(order, LAMBDA h : contains(nodes, h))
    IN [i \in DOMAIN found |-> CHOOSE p \in get(nodes, found[i]) : TRUE]

\* The unknown-parent return gone wrong: the parents found before the
\* missing one have already been taken out of the roots.
unknown_parent_detached(self, parent_hashes) ==
    [self EXCEPT !.roots = {r \in self.roots : r.computed_hash \notin parent_hashes}]

\* Line 172: the unknown-parent return; nothing of self has been touched,
\* the parents found so far were connected to the local message only.
unknown_parent(self, parent_hashes) == self

\* add_existing_message(message_data): the DAG after the call, with the
\* value returned and the return statement taken.  order is the order in
\* which the parent hashes of the body are walked.
add_existing_message(self, message_data, order) ==
    IF contains(self.messages, message_data.hash)
    THEN [self |-> self, ret |-> "Ok", at |-> "known"]
    ELSE IF ~parents_known(self.messages, message_data.body.parents)
    THEN [self |-> unknown_parent(self, message_data.body.parents),
          ret |-> "Err", at |-> "unknown_parent"]
    ELSE LET parents == resolve(self.messages, order)
             message == Message(message_data, Range(parents), self.starting_epoch)
             log == verify_message(self, message, parents)
         IN [self |-> [self EXCEPT
                         !.misbehaviour = log,
                         !.roots = insert(remove_all(self.roots, Range(parents)), message),
                         !.participant_head =
                             head_insert(self.participant_head,
                                         message.data.body.owner_uid,
                                         message.computed_hash),
                         !.arena = alloc(self.arena, message),
                         !.messages = insert(self.messages, message)],
             ret |-> "Ok", at |-> "added"]

\* ------------------------------------------------------------ root queries
\* DAG::has_dangling_roots
has_dangling_roots(self) == Cardinality(self.roots) > 1

\* DAG::current_root_data: Some(data) is {data}, None is {}.
current_root_data(self) ==
    IF Cardinality(self.roots) = 1
    THEN {m.data : m \in self.roots}
    ELSE {}

\* DAG::is_current_owner_root: map over the option, unwrap_or(false).
is_current_owner_root(self) ==
    \E d \in current_root_data(self) : d.body.owner_uid = self.owner_uid

\* ---------------------------------------------------- create_root_message
\* Root creation gone wrong: the new root becomes the head of the owner.
create_root_message_sets_head(self) ==
    LET body == MessageDataBody(self.owner_uid, Hashes(self.roots), 0)
        message == assume_computed_hash_epoch(
                       Message(SignedMessageData(0, body), self.roots,
                               self.starting_epoch))
    IN [self EXCEPT !.arena = alloc(self.arena, message),
                    !.messages = insert(self.messages, message),
                    !.roots = insert({}, message),
                    !.participant_head =
                        head_insert(self.participant_head, self.owner_uid,
                                    message.computed_hash)]

\* Root creation gone wrong: the old roots stay roots.
create_root_message_keeps_roots(self) ==
    LET body == MessageDataBody(self.owner_uid, Hashes(self.roots), 0)
        message == assume_computed_hash_epoch(
                       Message(SignedMessageData(0, body), self.roots,
                               self.starting_epoch))
    IN [self EXCEPT !.arena = alloc(self.arena, message),
                    !.messages = insert(self.messages, message),
                    !.roots = insert(self.roots, message)]

create_root_message(self) ==
    LET body == MessageDataBody(self.owner_uid, Hashes(self.roots), 0)
        message == assume_computed_hash_epoch(
                       Message(SignedMessageData(0, body), self.roots,
                               self.starting_epoch))
    IN [self EXCEPT !.arena = alloc(self.arena, message),
                    !.messages = insert(self.messages, message),
                    !.roots = insert({}, message)]

\* ------------------------------------------------------------ the inputs
\* Hashes of bodies without parents that the DAG has not seen: what a peer
\* may name as a parent before the DAG knows it.
PendingHashes ==
    {compute_hash(MessageDataBody(u, {}, 0)) : u \in UIDs} \ Hashes(messages)

\* The parent sets of received bodies: any messages of the DAG, or some of
\* its roots together with one hash it has not seen.
ParentSets ==
    (SUBSET Hashes(messages)) \cup
    {Q \cup {p} : Q \in SUBSET Hashes(roots), p \in PendingHashes}

Bodies ==
    UNION {{MessageDataBody(u, P, e) : P \in ParentSets, e \in ClaimedEpochs(u)} :
              u \in UIDs}

\* The hash field of received data: the digest of the body, or another value
\* the sender put there, the hash of a root or of nothing.
ClaimedHashes(body) ==
    IF body.owner_uid \in Byzantine
    THEN {compute_hash(body), BogusHash} \cup Hashes(roots)
    ELSE {compute_hash(body)}

Inputs ==
    UNION {{SignedMessageData(h, b) : h \in ClaimedHashes(b)} : b \in Bodies}

\* ------------------------------------------------------------ the machine
\* DAG::new(owner_uid, starting_epoch, witness_selector)
new(uid, epoch) ==
    [owner_uid |-> uid, starting_epoch |-> epoch,
     arena |-> EmptyBag, messages |-> {}, roots |-> {},
     misbehaviour |-> <<>>, participant_head |-> <<>>]

\* Nothing has been fed to the two DAGs.
NothingFed ==
    [left |-> {}, right |-> {}, crossed |-> {}, last |-> <<>>,
     peer_result |-> [op |-> "new", ret |-> "Ok", at |-> "new"]]

\* The peer while it takes no part: a new DAG that is fed nothing.
PairInit ==
    /\ peer = new(0, 0)
    /\ feed = NothingFed

\* The nibble slice while it takes no part: a view of no bytes.
NoSlice ==
    /\ slice = [data |-> <<>>, offset |-> 0,
                 data_encode_suffix |-> <<>>, offset_encode_suffix |-> 0]
    /\ call = [op |-> "none"]

\* The DAG after DAG::new(0, 0, selector).
DagInit ==
    /\ owner_uid = 0
    /\ starting_epoch = 0
    /\ arena = EmptyBag
    /\ messages = {}
    /\ roots = {}
    /\ misbehaviour = <<>>
    /\ participant_head = <<>>
    /\ result = [op |-> "new", ret |-> "Ok", at |-> "new"]
    /\ rejected = {}

\* No call is inside the loop of find_fork.
NoSearch == search = [pc |-> "idle"]

Init ==
    /\ DagInit
    /\ PairInit
    /\ NoSlice
    /\ NoSearch

Install(self) ==
    /\ arena' = self.arena
    /\ messages' = self.messages
    /\ roots' = self.roots
    /\ misbehaviour' = self.misbehaviour
    /\ participant_head' = self.participant_head
    /\ UNCHANGED <<owner_uid, starting_epoch>>

\* The rejections that are remembered, to tell a retry from a first attempt:
\* those of bodies of the other participants that name one parent only.
Remembered(body) ==
    /\ body.owner_uid \notin Byzantine
    /\ Cardinality(body.parents) = 1
    /\ rejected = {}

AddExistingMessageStep(message_data, order) ==
    LET out == add_existing_message(Self, message_data, order)
    IN /\ Install(out.self)
       /\ result' = [op |-> "add_existing_message", ret |-> out.ret, at |-> out.at]
       /\ rejected' = IF out.ret = "Err" /\ Remembered(message_data.body)
                      THEN rejected \cup {compute_hash(message_data.body)}
                      ELSE rejected
       /\ UNCHANGED <<pair_vars, nibble_vars, search>>

AddExistingMessage ==
    /\ BagCardinality(arena) < MaxArena
    /\ \E message_data \in Inputs :
          \E order \in Orders(message_data.body.parents) :
              AddExistingMessageStep(message_data, order)

CreateRootMessage ==
    /\ BagCardinality(arena) < MaxArena
    /\ Install(create_root_message(Self))
    /\ result' = [op |-> "create_root_message", ret |-> "Ok", at |-> "created"]
    /\ UNCHANGED rejected
    /\ UNCHANGED <<pair_vars, nibble_vars, search>>

Next == AddExistingMessage \/ CreateRootMessage

Spec == Init /\ [][Next]_vars

\* ------------------------------------------- the loop of find_fork, by steps
\* One iteration of the loop gone wrong: a message that was visited is put
\* back at the end of the queue instead of being skipped.
find_fork_iteration_requeues(s) ==
    IF Len(s.queue) = 0
    THEN [s EXCEPT !.pc = "fork"]
    ELSE LET cur_message == Head(s.queue)
             rest == Tail(s.queue)
         IN IF cur_message.data.body.owner_uid = s.uid
            THEN IF cur_message.computed_hash = s.last_hash
                 THEN [s EXCEPT !.pc = "no_fork", !.queue = rest]
                 ELSE [s EXCEPT !.queue = rest]
            ELSE [s EXCEPT !.queue = Append(rest, cur_message)]

\* One test of the loop condition of find_fork and, when the queue is not
\* empty, one iteration (lines 64-93): pc "fork" is the fall through to
\* Some(last_hash), pc "no_fork" the return of None from inside the loop.
find_fork_iteration(s) ==
    IF Len(s.queue) = 0
    THEN [s EXCEPT !.pc = "fork"]
    ELSE LET cur_message == Head(s.queue)
             rest == Tail(s.queue)
         IN IF cur_message.data.body.owner_uid = s.uid
            THEN IF cur_message.computed_hash = s.last_hash
                 THEN [s EXCEPT !.pc = "no_fork", !.queue = rest]
                 ELSE [s EXCEPT !.queue = rest]
            ELSE IF cur_message.computed_hash \in s.visited
                 THEN [s EXCEPT !.queue = rest]
                 ELSE [s EXCEPT !.queue = Append(rest, cur_message),
                                !.visited = s.visited \cup {cur_message.computed_hash}]

\* Whether add_existing_message(message_data) gets as far as the loop of
\* find_fork: the hash field is not known, the parents are, and the owner
\* has a head (lines 160, 168-174, 51).
EntersLoop(message_data) ==
    /\ ~contains(messages, message_data.hash)
    /\ parents_known(messages, message_data.body.parents)
    /\ message_data.body.owner_uid \in DOMAIN participant_head

\* The data given to the calls that are taken in steps: the claimed epoch
\* is the derived one, as find_fork reads neither the epoch nor the log.
SearchInputs == {d \in Inputs : d.body.epoch = 0}

\* A call of add_existing_message up to the loop of find_fork: the message
\* is built and connected to its parents (lines 165-178), verify_message
\* reports a bad epoch (134-140) and find_fork fills visited and queue
\* (55-58).  A call that does not get to the loop is taken whole.
BeginCall ==
    /\ search.pc = "idle"
    /\ BagCardinality(arena) < MaxArena
    /\ \E message_data \in SearchInputs :
          \E order \in Orders(message_data.body.parents) :
              IF EntersLoop(message_data)
              THEN LET parents == resolve(messages, order)
                       message == Message(message_data, Range(parents), starting_epoch)
                   IN /\ misbehaviour' =
                            IF message.computed_epoch # message.data.body.epoch
                            THEN report(misbehaviour, BadEpoch(message.computed_hash))
                            ELSE misbehaviour
                      /\ search' = [pc |-> "loop",
                                    message |-> message,
                                    parents |-> parents,
                                    uid |-> message_data.body.owner_uid,
                                    last_hash |-> participant_head[message_data.body.owner_uid],
                                    queue |-> parents,
                                    visited |-> Hashes(Range(parents))]
                      /\ UNCHANGED <<owner_uid, starting_epoch, arena, messages,
                                     roots, participant_head, result, rejected,
                                     pair_vars, nibble_vars>>
              ELSE AddExistingMessageStep(message_data, order)

\* The running call tests the loop condition and runs one iteration.
LoopStep ==
    /\ search.pc = "loop"
    /\ search' = find_fork_iteration(search)
    /\ UNCHANGED <<owner_uid, starting_epoch, arena, messages, roots,
                   misbehaviour, participant_head, result, rejected,
                   pair_vars, nibble_vars>>

\* find_fork has returned: verify_message reports the fork (lines 144-149)
\* and add_existing_message takes the message in (184-193).
EndCall ==
    /\ search.pc \in {"fork", "no_fork"}
    /\ misbehaviour' =
          IF search.pc = "fork"
          THEN report(misbehaviour,
                      ForkAttempt(search.last_hash, search.message.computed_hash))
          ELSE misbehaviour
    /\ roots' = insert(remove_all(roots, Range(search.parents)), search.message)
    /\ participant_head' = head_insert(participant_head, search.uid,
                                        search.message.computed_hash)
    /\ arena' = alloc(arena, search.message)
    /\ messages' = insert(messages, search.message)
    /\ result' = [op |-> "add_existing_message", ret |-> "Ok", at |-> "added"]
    /\ search' = [pc |-> "idle"]
    /\ UNCHANGED <<owner_uid, starting_epoch, rejected, pair_vars, nibble_vars>>

\* create_root_message between two calls of add_existing_message.
CreateRootBetweenCalls == search.pc = "idle" /\ CreateRootMessage

NextSearch == BeginCall \/ LoopStep \/ EndCall \/ CreateRootBetweenCalls

\* A call that has started goes on running.
SpecSearch ==
    Init /\ [][NextSearch]_vars /\ WF_vars(LoopStep) /\ WF_vars(EndCall)

\* ------------------------------------------------- two DAGs, one message set
\* This DAG and the peer are fed the same messages, each parents before
\* children, in two orders that differ by exchanging two messages; children
\* of the two follow.
MaxFeed == 4         \* at most this many messages are fed to each DAG

\* The hashes of the bodies fed so far.
FedHashes(fed) == {compute_hash(d.body) : d \in fed}

\* The bodies that can be fed next to both DAGs: their parents were fed to
\* both.
FeedBodies ==
    LET known == FedHashes(feed.left) \cap FedHashes(feed.right)
    IN UNION {{MessageDataBody(u, P, e) :
                  P \in SUBSET known, e \in ClaimedEpochs(u)} : u \in UIDs}

\* What can be fed next to both DAGs: data fed to neither, with the digest of
\* the body in the hash field.
FeedInputs ==
    {SignedMessageData(compute_hash(b), b) : b \in FeedBodies}
        \ (feed.left \cup feed.right)

\* Data of the Byzantine participant that carries the hash of another body,
\* one without parents, in the hash field.
ForgedInputs ==
    LET parentless == {compute_hash(MessageDataBody(u, {}, 0)) : u \in UIDs}
    IN {SignedMessageData(h, b) :
           h \in parentless, b \in {x \in FeedBodies : x.owner_uid \in Byzantine}}
          \ (FeedInputs \cup feed.left \cup feed.right)

\* The children of every message that was exchanged.
ChildrenOfCrossed ==
    {d \in FeedInputs : FedHashes(feed.crossed) \subseteq d.body.parents}

\* The peer walks the parents of a body in one order of its own.
PeerOrder(parent_hashes) == CHOOSE order \in Orders(parent_hashes) : TRUE

\* message_left is fed to this DAG and message_right to the peer.
FeedStep(message_left, order, message_right) ==
    LET out_left == add_existing_message(Self, message_left, order)
        out_right == add_existing_message(peer, message_right,
                                          PeerOrder(message_right.body.parents))
    IN /\ Install(out_left.self)
       /\ result' = [op |-> "add_existing_message",
                      ret |-> out_left.ret, at |-> out_left.at]
       /\ peer' = out_right.self
       /\ feed' = [left |-> feed.left \cup {message_left},
                    right |-> feed.right \cup {message_right},
                    crossed |-> IF message_left = message_right
                                THEN feed.crossed
                                ELSE feed.crossed \cup {message_left, message_right},
                    last |-> <<message_left, message_right>>,
                    peer_result |-> [op |-> "add_existing_message",
                                     ret |-> out_right.ret, at |-> out_right.at]]
       /\ UNCHANGED <<rejected, nibble_vars, search>>

\* Both DAGs are fed the same message: before the exchange, with room left
\* for the exchange, a message between its halves and a child; between its
\* two halves; or, after it, a child of the exchanged messages.
FeedBoth ==
    \E message_data \in
            IF feed.crossed = {}
            THEN IF Cardinality(feed.left) + 5 <= MaxFeed THEN FeedInputs ELSE {}
            ELSE IF feed.left # feed.right
            THEN IF Cardinality(feed.left) + 2 <= MaxFeed THEN FeedInputs ELSE {}
            ELSE IF Cardinality(feed.left) + 1 <= MaxFeed THEN ChildrenOfCrossed ELSE {} :
        \E order \in Orders(message_data.body.parents) :
            FeedStep(message_data, order, message_data)

\* The exchange, first half: this DAG is fed one message and the peer another.
\* Which of the two DAGs is fed which makes no difference, the two are alike:
\* of each two messages one, chosen arbitrarily, is the one this DAG is fed.
FeedCrossed ==
    /\ feed.crossed = {}
    /\ Cardinality(feed.left) + 2 <= MaxFeed
    /\ \E message_left, message_right \in FeedInputs \cup ForgedInputs :
          /\ message_left # message_right
          /\ message_left = (CHOOSE m \in {message_left, message_right} : TRUE)
          /\ \E order \in Orders(message_left.body.parents) :
                FeedStep(message_left, order, message_right)

\* The exchange, second half: each DAG is fed what the other was fed before.
FeedOwed ==
    /\ feed.left # feed.right
    /\ \E message_left \in feed.right \ feed.left :
          \E message_right \in feed.left \ feed.right :
              \E order \in Orders(message_left.body.parents) :
                  FeedStep(message_left, order, message_right)

NextPair == FeedBoth \/ FeedCrossed \/ FeedOwed

SpecPair == Init /\ [][NextPair]_vars

\* ------------------------------------------------------------ nibble slice
MaxBytes == 2        \* a byte buffer holds at most this many bytes

\* The byte values of the buffers: every flag pattern of a first byte of an
\* encoding, small and large nibbles.
Bytes == {0, 1, 18, 35, 48, 255}

RECURSIVE SeqsUpTo(_, _)
SeqsUpTo(S, n) ==
    IF n = 0 THEN {<<>>}
    ELSE LET shorter == SeqsUpTo(S, n - 1)
         IN shorter \cup {Append(b, x) : b \in shorter, x \in S}

Buffers == SeqsUpTo(Bytes, MaxBytes)

\* NibbleSlice::new_offset
new_offset(data, offset) ==
    [data |-> data, offset |-> offset,
     data_encode_suffix |-> <<>>, offset_encode_suffix |-> 0]

\* NibbleSlice::len
len(self) ==
    (Len(self.data) + Len(self.data_encode_suffix)) * 2
        - self.offset - self.offset_encode_suffix

\* NibbleSlice::is_empty
is_empty(self) == len(self) = 0

\* at gone wrong: the two halves of a byte are taken the other way round.
at_halves_swapped(self, i) ==
    LET at_ == self.offset + i
    IN IF at_ % 2 = 1
       THEN self.data[(at_ \div 2) + 1] \div 16
       ELSE self.data[(at_ \div 2) + 1] % 16

\* NibbleSlice::at; data[k] of the source is data[k + 1] here, x & 15 is
\* x % 16 and x >> 4 is x \div 16 on a u8.
at(self, i) ==
    LET l == Len(self.data) * 2 - self.offset
    IN IF i < l
       THEN IF (self.offset + i) % 2 = 1
            THEN self.data[((self.offset + i) \div 2) + 1] % 16
            ELSE self.data[((self.offset + i) \div 2) + 1] \div 16
       ELSE LET j == i - l
            IN IF (self.offset_encode_suffix + j) % 2 = 1
               THEN self.data_encode_suffix[((self.offset_encode_suffix + j) \div 2) + 1] % 16
               ELSE self.data_encode_suffix[((self.offset_encode_suffix + j) \div 2) + 1] \div 16

\* NibbleSlice::mid
mid(self, i) ==
    [data |-> self.data, offset |-> self.offset + i,
     data_encode_suffix |-> <<>>, offset_encode_suffix |-> 0]

Min(a, b) == IF a <= b THEN a ELSE b

\* The for loop of common_prefix, from index i on.
RECURSIVE common_prefix_from(_, _, _, _)
common_prefix_from(self, them, i, s) ==
    IF i >= s THEN s
    ELSE IF at(self, i) # at(them, i) THEN i
    ELSE common_prefix_from(self, them, i + 1, s)

\* NibbleSlice::common_prefix
common_prefix(self, them) ==
    common_prefix_from(self, them, 0, Min(len(self), len(them)))

\* NibbleSlice::starts_with
starts_with(self, them) == common_prefix(self, them) = len(them)

\* The loop of encoded gone wrong: each pair is packed low nibble first.
RECURSIVE encoded_from_low_first(_, _, _)
encoded_from_low_first(self, i, l) ==
    IF i < l
    THEN <<(at(self, i + 1) * 16 + at(self, i)) % 256>>
             \o encoded_from_low_first(self, i + 2, l)
    ELSE <<>>

\* The while loop of encoded, from index i on; the pushes are u8.
RECURSIVE encoded_from(_, _, _)
encoded_from(self, i, l) ==
    IF i < l
    THEN <<(at(self, i) * 16 + at(self, i + 1)) % 256>> \o encoded_from(self, i + 2, l)
    ELSE <<>>

\* NibbleSlice::encoded
encoded(self, is_leaf) ==
    LET l == len(self)
        i == l % 2
        first == ((IF i = 1 THEN 16 + at(self, 0) ELSE 0)
                      + (IF is_leaf THEN 32 ELSE 0)) % 256
    IN <<first>> \o encoded_from(self, i, l)

\* from_encoded gone wrong: nibble 1 for an even length, nibble 2 for an odd.
from_encoded_offsets_swapped(data) ==
    [slice |-> new_offset(data, IF (data[1] \div 16) % 2 = 1 THEN 2 ELSE 1),
     is_leaf |-> (data[1] \div 32) % 2 = 1]

\* from_encoded gone wrong: the leaf flag is read from the parity bit.
from_encoded_flag_from_parity(data) ==
    [slice |-> new_offset(data, IF (data[1] \div 16) % 2 = 1 THEN 1 ELSE 2),
     is_leaf |-> (data[1] \div 16) % 2 = 1]

\* NibbleSlice::from_encoded; x & 16 == 16 is bit 4 of x, x & 32 == 32 bit 5.
from_encoded(data) ==
    [slice |-> new_offset(data, IF (data[1] \div 16) % 2 = 1 THEN 1 ELSE 2),
     is_leaf |-> (data[1] \div 32) % 2 = 1]

\* impl PartialEq for NibbleSlice
eq(self, them) == len(self) = len(them) /\ starts_with(self, them)

\* usize::partial_cmp
cmp_usize(a, b) == IF a < b THEN "Less" ELSE IF a > b THEN "Greater" ELSE "Equal"

\* The loop of partial_cmp gone wrong: the lengths are not compared.
RECURSIVE partial_cmp_from_no_length(_, _, _, _)
partial_cmp_from_no_length(self, them, i, s) ==
    IF i >= s THEN "Equal"
    ELSE IF cmp_usize(at(self, i), at(them, i)) = "Less" THEN "Less"
    ELSE IF cmp_usize(at(self, i), at(them, i)) = "Greater" THEN "Greater"
    ELSE partial_cmp_from_no_length(self, them, i + 1, s)

\* The for loop of partial_cmp, from index i on.
RECURSIVE partial_cmp_from(_, _, _, _)
partial_cmp_from(self, them, i, s) ==
    IF i >= s THEN cmp_usize(len(self), len(them))
    ELSE IF cmp_usize(at(self, i), at(them, i)) = "Less" THEN "Less"
    ELSE IF cmp_usize(at(self, i), at(them, i)) = "Greater" THEN "Greater"
    ELSE partial_cmp_from(self, them, i + 1, s)

\* impl PartialOrd for NibbleSlice: partial_cmp, always Some(ordering).
partial_cmp(self, them) ==
    partial_cmp_from(self, them, 0, Min(len(self), len(them)))

\* Ord::cmp of two byte slices: the first differing byte decides, then the
\* lengths.
RECURSIVE cmp_bytes(_, _, _)
cmp_bytes(a, b, i) ==
    IF i > Len(a) \/ i > Len(b) THEN cmp_usize(Len(a), Len(b))
    ELSE IF a[i] # b[i] THEN cmp_usize(a[i], b[i])
    ELSE cmp_bytes(a, b, i + 1)

\* Ord::cmp of NibbleSlice as #[derive(Ord)] makes it: the fields in the
\* order of their declaration, the first that differs decides.
cmp(self, them) ==
    IF cmp_bytes(self.data, them.data, 1) # "Equal"
    THEN cmp_bytes(self.data, them.data, 1)
    ELSE IF cmp_usize(self.offset, them.offset) # "Equal"
    THEN cmp_usize(self.offset, them.offset)
    ELSE IF cmp_bytes(self.data_encode_suffix, them.data_encode_suffix, 1) # "Equal"
    THEN cmp_bytes(self.data_encode_suffix, them.data_encode_suffix, 1)
    ELSE cmp_usize(self.offset_encode_suffix, them.offset_encode_suffix)

\* The views a caller can make over a buffer.
Views == {new_offset(b, o) : b \in Buffers, o \in 0 .. (2 * MaxBytes)}

\* The views a view is compared with: those over at most one byte.
SmallViews == {v \in Views : Len(v.data) <= 1 /\ v.offset <= 2 * Len(v.data)}

\* A view over a buffer, as new_offset returns it; the DAGs take no part.
NibbleInit ==
    /\ DagInit
    /\ PairInit
    /\ NoSearch
    /\ slice \in {v \in Views : v.offset <= 2 * Len(v.data)}
    /\ call = [op |-> "new_offset"]

\* v.encoded(is_leaf)
Encoded ==
    /\ call.op = "new_offset"
    /\ \E is_leaf \in BOOLEAN :
          call' = [op |-> "encoded", is_leaf |-> is_leaf,
                   bytes |-> encoded(slice, is_leaf)]
    /\ UNCHANGED <<slice, dag_vars>>

\* from_encoded of the bytes encoded returned.
FromEncoded ==
    /\ call.op = "encoded"
    /\ call' = [op |-> "from_encoded", is_leaf |-> call.is_leaf,
                 bytes |-> call.bytes, decoded |-> from_encoded(call.bytes)]
    /\ UNCHANGED <<slice, dag_vars>>

\* from_encoded of the bytes of the buffer as they are.
FromBytes ==
    /\ call.op = "new_offset"
    /\ slice.offset = 0
    /\ Len(slice.data) > 0
    /\ call' = [op |-> "from_bytes", bytes |-> slice.data,
                 decoded |-> from_encoded(slice.data)]
    /\ UNCHANGED <<slice, dag_vars>>

\* v.partial_cmp(them), v == them and v.cmp(them)
Compare ==
    /\ call.op = "new_offset"
    /\ \E them \in SmallViews :
          call' = [op |-> "partial_cmp", them |-> them,
                   ordering |-> partial_cmp(slice, them),
                   reverse |-> partial_cmp(them, slice),
                   equal |-> eq(slice, them),
                   total |-> cmp(slice, them)]
    /\ UNCHANGED <<slice, dag_vars>>

\* v.mid(i): the caller goes on with the view further in.
Mid ==
    /\ call.op = "new_offset"
    /\ \E i \in 1 .. len(slice) : slice' = mid(slice, i)
    /\ UNCHANGED <<call, dag_vars>>

NextNibble == Encoded \/ FromEncoded \/ FromBytes \/ Compare \/ Mid

SpecNibble == NibbleInit /\ [][NextNibble]_vars

\* =============================================================== claims
\* Vocabulary of the claims, stated on the state alone.
InMessages(hash) == \E n \in messages : n.computed_hash = hash
InRoots(hash) == \E n \in roots : n.computed_hash = hash
AllParentsPresent(body) == \A p \in body.parents : InMessages(p)

\* The entries a step appends to the misbehaviour log.
Appended == SubSeq(misbehaviour', Len(misbehaviour) + 1, Len(misbehaviour'))

IsPrefix(s, t) == Len(s) <= Len(t) /\ SubSeq(t, 1, Len(s)) = s

\* The node a step allocates, when it allocates one.
Allocates == BagCardinality(arena') = BagCardinality(arena) + 1
NewNode == CHOOSE n \in BagToSet(arena') : CopiesIn(n, arena') > CopiesIn(n, arena)

\* The hashes reachable from a set of hashes along parent links.
RECURSIVE Reach(_, _)
Reach(nodes, hashes) ==
    LET step == hashes \cup
                UNION {n.data.body.parents : n \in {x \in nodes : x.computed_hash \in hashes}}
    IN IF step = hashes THEN hashes ELSE Reach(nodes, step)

\* The ancestors of a body: its parents, their parents, and so on.
Ancestors(nodes, body) == Reach(nodes, body.parents)

C2_ErrorLeavesDagUnchanged ==
    [][(result'.op = "add_existing_message" /\ result'.ret = "Err")
           => UNCHANGED <<messages, roots, participant_head, misbehaviour>>]_vars

\* The error was returned by a DAG that has roots, heads and violations.
C2_Witness ==
    /\ result.at = "unknown_parent"
    /\ Cardinality(roots) > 1
    /\ DOMAIN participant_head # {}
    /\ Len(misbehaviour) > 0


\* The fork attempts among the entries a step appends.
AppendedForks == SelectSeq(Appended, LAMBDA v : v.type = "ForkAttempt")

\* A step of add_existing_message that ingests the message it was given.
Ingests == result'.at = "added" /\ Allocates

\* C3: no ForkAttempt is recorded for a message whose ancestors, direct or
\* through any chain of parents, include the head its owner had at ingest.
C3_NoForkWhenHeadIsAncestor ==
    [][Ingests =>
          LET body == NewNode.data.body
              uid == body.owner_uid
          IN (uid \in DOMAIN participant_head
                 /\ participant_head[uid] \in Ancestors(messages, body))
             => AppendedForks = <<>>]_vars

\* C4: when the owner of an ingested message has a head and the head is not
\* among the ancestors of the message, the ingest appends exactly one
\* ForkAttempt, from the head to the message.
C4_ForkWhenHeadIsNoAncestor ==
    [][Ingests =>
          LET body == NewNode.data.body
              uid == body.owner_uid
          IN (uid \in DOMAIN participant_head
                 /\ participant_head[uid] \notin Ancestors(messages, body))
             => AppendedForks =
                   <<ForkAttempt(participant_head[uid], NewNode.computed_hash)>>]_vars

\* Two messages of one owner, the second without the first among its
\* ancestors, have left exactly one fork attempt from the first to the second.
C4_Witness ==
    /\ result.at = "added"
    /\ Cardinality(messages) >= 2
    /\ Len(misbehaviour) = 1
    /\ misbehaviour[1].type = "ForkAttempt"
    /\ misbehaviour[1].message_0 # misbehaviour[1].message_1
    /\ InMessages(misbehaviour[1].message_0)
    /\ InRoots(misbehaviour[1].message_1)


\* C5: a second add_existing_message with data that was ingested before
\* returns Ok and changes nothing of the DAG.
C5_ReingestChangesNothing ==
    \A n \in BagToSet(arena) :
        \A order \in Orders(n.data.body.parents) :
            LET out == add_existing_message(Self, n.data, order)
            IN out.ret = "Ok" /\ out.self = Self

\* The nodes that some node of messages names as a parent.
HasChild(m) == \E c \in messages : m.computed_hash \in c.data.body.parents

\* C6: roots is a subset of messages, a message is a root exactly when no
\* message names it as a parent, and so |roots| is |messages| less the
\* number of messages that are a parent.
C6_RootsAreTheChildless ==
    /\ \A r \in roots : InMessages(r.computed_hash)
    /\ \A m \in messages : InRoots(m.computed_hash) <=> ~HasChild(m)
    /\ Cardinality(roots) =
          Cardinality(messages) - Cardinality({m \in messages : HasChild(m)})

\* The messages of uid that a step adds to messages.
AddedBy(uid) ==
    {n \in messages' : n.data.body.owner_uid = uid /\ ~InMessages(n.computed_hash)}

\* C7: participant_head[uid] is defined for every uid that owns a message
\* and is the hash of the message of uid added most recently: a step that
\* adds a message of uid sets the head of uid to it, any other step keeps it.
C7_HeadIsLatestMessage ==
    [][\A uid \in UIDs :
          IF AddedBy(uid) # {}
          THEN /\ uid \in DOMAIN participant_head'
               /\ participant_head'[uid] \in Hashes(AddedBy(uid))
          ELSE uid \in DOMAIN participant_head =>
                  /\ uid \in DOMAIN participant_head'
                  /\ participant_head'[uid] = participant_head[uid]]_vars

\* No message is among its own ancestors.
Acyclic(nodes) ==
    \A m \in nodes : m.computed_hash \notin Ancestors(nodes, m.data.body)

\* C8: every parent hash of every message is in messages and was inserted
\* by an earlier step than the message, no message is ever removed, and the
\* parent relation has no cycle.
C8_ParentsInsertedBefore ==
    [][/\ \A m \in messages : m.computed_hash \in Hashes(messages')
       /\ \A m \in messages' :
             /\ m.data.body.parents \subseteq Hashes(messages')
             /\ ~InMessages(m.computed_hash) =>
                    \A p \in m.data.body.parents : InMessages(p)
       /\ Acyclic(messages')]_vars

\* messages holds a chain of three and a message synthesized by the owner
\* that has a parent.
C8_Witness ==
    /\ \E a, b \in messages :
          /\ a.computed_hash \in b.data.body.parents
          /\ b.data.body.parents # {a.computed_hash}
    /\ result.at = "created"
    /\ \E r \in roots : r.data.body.parents # {}

\* C9: the misbehaviour log before a step is a prefix of the log after it.
C9_LogIsAppendOnly ==
    [][IsPrefix(misbehaviour, misbehaviour')]_vars

\* The log has grown over several steps and holds both kinds of entries.
C9_Witness ==
    /\ Len(misbehaviour) >= 3
    /\ \E i, j \in DOMAIN misbehaviour :
          i < j /\ misbehaviour[i].type = "ForkAttempt"
                /\ misbehaviour[j].type = "BadEpoch"

\* The bad epochs among the entries a step appends.
AppendedBadEpochs == SelectSeq(Appended, LAMBDA v : v.type = "BadEpoch")

\* C10: the first ingest of a message appends exactly one BadEpoch with the
\* hash of the message when the derived epoch differs from the claimed one
\* and none when they agree; either way the message is then in messages and
\* in roots.
C10_BadEpochOnFirstIngest ==
    [][(Ingests /\ ~InMessages(NewNode.computed_hash)) =>
          /\ AppendedBadEpochs =
                IF NewNode.computed_epoch # NewNode.data.body.epoch
                THEN <<BadEpoch(NewNode.computed_hash)>>
                ELSE <<>>
          /\ NewNode.computed_hash \in Hashes(messages')
          /\ NewNode.computed_hash \in Hashes(roots')]_vars

\* A message with a wrong epoch was ingested: it is a root and the log holds
\* its bad epoch, next to a message ingested without one.
C10_Witness ==
    /\ result.at = "added"
    /\ \E i \in DOMAIN misbehaviour :
          /\ misbehaviour[i].type = "BadEpoch"
          /\ InRoots(misbehaviour[i].message)
    /\ \E m \in messages :
          \A i \in DOMAIN misbehaviour :
              misbehaviour[i].type = "BadEpoch" => misbehaviour[i].message # m.computed_hash


\* A step of create_root_message.
Creates == result'.op = "create_root_message"

\* C11: create_root_message returns Ok and allocates one message, owned by
\* owner_uid, whose parent hashes are the hashes of the roots before the
\* call; afterwards roots holds the new message only, messages holds one
\* element more, the new message, and every message it held before.
C11_CreateRootCollapsesRoots ==
    [][Creates =>
          /\ result'.ret = "Ok"
          /\ Allocates
          /\ NewNode.data.body.owner_uid = owner_uid
          /\ NewNode.data.body.parents = Hashes(roots)
          /\ roots' = {NewNode}
          /\ ~InMessages(NewNode.computed_hash)
          /\ messages' = messages \cup {NewNode}
          /\ Cardinality(messages') = Cardinality(messages) + 1]_vars

\* create_root_message has collapsed two roots into one: the sole root names
\* two parents, both still in messages.
C11_Witness ==
    /\ result.at = "created"
    /\ Cardinality(roots) = 1
    /\ \E r \in roots :
          /\ Cardinality(r.data.body.parents) = 2
          /\ r.data.body.parents \subseteq Hashes(messages)
    /\ Cardinality(messages) = 3

\* The entries a step appends to the misbehaviour log of the peer.
PeerAppended ==
    SubSeq(peer.misbehaviour', Len(peer.misbehaviour) + 1, Len(peer.misbehaviour'))

\* The message both DAGs were fed last.
Child == feed'.last[1]

\* A step that feeds both DAGs a child c of the exchanged messages, after
\* feeds that differ in the positions of direct parents of c only, and in
\* which both DAGs ingest c.
IngestsChild ==
    /\ feed'.left # feed.left
    /\ feed.left = feed.right
    /\ feed.crossed # {}
    /\ feed'.last[1] = feed'.last[2]
    /\ FedHashes(feed.crossed) \subseteq Child.body.parents
    /\ result'.at = "added"
    /\ feed'.peer_result.at = "added"

\* The owner of the child has the same head, or none, in both DAGs.
SameHead(uid) ==
    IF uid \in DOMAIN participant_head
    THEN uid \in DOMAIN peer.participant_head
            /\ peer.participant_head[uid] = participant_head[uid]
    ELSE uid \notin DOMAIN peer.participant_head

\* C12 as claimed: the violations that the ingest of a child appends are the
\* same in two feeds that differ in the positions of its parents only.
C12_ViolationsWhateverParentOrder ==
    [][IngestsChild => Range(Appended) = Range(PeerAppended)]_vars

\* C12 as amended: they are the same when the owner of the child has the same
\* head in both DAGs at the ingest, and the bad epochs among them are the
\* same in any case.
C12_ViolationsGivenSameHead ==
    [][IngestsChild =>
          /\ Range(SelectSeq(Appended, LAMBDA v : v.type = "BadEpoch")) =
                 Range(SelectSeq(PeerAppended, LAMBDA v : v.type = "BadEpoch"))
          /\ SameHead(Child.body.owner_uid) =>
                 Range(Appended) = Range(PeerAppended)]_vars

\* Both DAGs have ingested a child of two exchanged parents and both have
\* recorded the same fork attempt for it.
C12_Witness ==
    /\ feed.crossed # {}
    /\ feed.left = feed.right
    /\ Len(feed.last) = 2
    /\ feed.last[1] = feed.last[2]
    /\ FedHashes(feed.crossed) \subseteq feed.last[1].body.parents
    /\ result.at = "added"
    /\ feed.peer_result.at = "added"
    /\ Len(misbehaviour) > 0
    /\ Len(peer.misbehaviour) > 0
    /\ misbehaviour[Len(misbehaviour)] = peer.misbehaviour[Len(peer.misbehaviour)]
    /\ misbehaviour[Len(misbehaviour)].type = "ForkAttempt"
    /\ misbehaviour[Len(misbehaviour)].message_1 = compute_hash(feed.last[1].body)

\* C20: two DAGs with the same owner_uid and starting_epoch that have ingested
\* the same set of messages through add_existing_message, each parents before
\* children, hold the same messages and the same roots.
C20_SameMessagesSameGraph ==
    feed.left = feed.right =>
        /\ Hashes(messages) = Hashes(peer.messages)
        /\ Hashes(roots) = Hashes(peer.roots)

\* ------------------------------------------------------------------ C13
\* The nibbles of a view, read one by one with at.
Nibbles(v) == [i \in 1 .. len(v) |-> at(v, i - 1)]

Decoded == call.op = "from_encoded"

\* C13: from_encoded(v.encoded(leaf)) is a view equal to v, of the same
\* length and with the same nibbles, and the leaf flag is leaf again.
C13_RoundTrip ==
    Decoded =>
        /\ eq(call.decoded.slice, slice)
        /\ eq(slice, call.decoded.slice)
        /\ len(call.decoded.slice) = len(slice)
        /\ Nibbles(call.decoded.slice) = Nibbles(slice)
        /\ call.decoded.is_leaf = call.is_leaf

\* C13 witness: a leaf view of three nibbles starting in the middle of a
\* byte has gone through encoded and from_encoded.
C13_Witness ==
    /\ Decoded
    /\ call.is_leaf
    /\ len(slice) = 3
    /\ slice.offset = 1
    /\ call.decoded.slice.data # slice.data

\* ------------------------------------------------------------------ C14
\* The high and the low half of a byte.
HighHalf(byte) == (byte \div 16) % 16
LowHalf(byte) == byte % 16

\* C14: the view new_offset(b, o) with o <= 2|b| has length 2|b| - o, is
\* empty exactly when that is 0, and its nibble i is the high half of
\* b[(o+i)/2] when o+i is even and the low half when o+i is odd.
C14_LengthAndNibbles ==
    LET b == slice.data
        o == slice.offset
    IN /\ slice = new_offset(b, o)
       /\ o <= 2 * Len(b)
       /\ len(slice) = 2 * Len(b) - o
       /\ is_empty(slice) <=> (2 * Len(b) - o = 0)
       /\ \A i \in 0 .. (len(slice) - 1) :
             at(slice, i) = IF (o + i) % 2 = 0
                            THEN HighHalf(b[((o + i) \div 2) + 1])
                            ELSE LowHalf(b[((o + i) \div 2) + 1])

\* C14 witness: the view of [0x12, 0x23] from nibble 1 on holds 2, 2, 3.
C14_Witness ==
    /\ call.op = "new_offset"
    /\ slice.data = <<18, 35>>
    /\ slice.offset = 1
    /\ len(slice) = 3
    /\ ~is_empty(slice)
    /\ Nibbles(slice) = <<2, 2, 3>>

\* ------------------------------------------------------------------ C15
HasEncoded == call.op = "encoded"

\* Bit 0x10 and bit 0x20 of a byte.
Bit16(byte) == (byte \div 16) % 2 = 1
Bit32(byte) == (byte \div 32) % 2 = 1

\* C15: encoded(is_leaf) of a view of n nibbles is 1 + n/2 bytes; byte 0 has
\* bit 0x20 set iff is_leaf, bit 0x10 set iff n is odd, no higher bit, and in
\* its low half the first nibble when n is odd and 0 when n is even; the
\* other bytes are the remaining nibbles in pairs, high nibble first.
C15_EncodedLayout ==
    /\ encoded(new_offset(<<1, 35, 69>>, 0), FALSE) = <<0, 1, 35, 69>>
    /\ encoded(new_offset(<<1, 35, 69>>, 1), TRUE) = <<49, 35, 69>>
    /\ HasEncoded =>
          LET n == len(slice)
              odd == n % 2
              nibble == Nibbles(slice)
              bytes == call.bytes
          IN /\ Len(bytes) = 1 + (n \div 2)
             /\ Bit32(bytes[1]) <=> call.is_leaf
             /\ Bit16(bytes[1]) <=> (odd = 1)
             /\ bytes[1] \div 64 = 0
             /\ LowHalf(bytes[1]) = IF odd = 1 THEN nibble[1] ELSE 0
             /\ \A k \in 1 .. (n \div 2) :
                   /\ HighHalf(bytes[k + 1]) = nibble[odd + 2 * k - 1]
                   /\ LowHalf(bytes[k + 1]) = nibble[odd + 2 * k]

\* C15 witness: the leaf view 2, 2, 3 of [0x12, 0x23] from nibble 1 on has
\* been encoded as [0x32, 0x23].
C15_Witness ==
    /\ HasEncoded
    /\ call.is_leaf
    /\ slice = new_offset(<<18, 35>>, 1)
    /\ call.bytes = <<50, 35>>

\* ------------------------------------------------------------------ C16
HasDecoded == call.op \in {"from_encoded", "from_bytes"}

\* C16 as stated: from_encoded(bytes) is a view over the same bytes that
\* starts at nibble 1 when bit 0x10 of byte 0 is clear (even length) and at
\* nibble 2 when it is set (odd length), with the leaf flag of bit 0x20.
C16_OffsetOneWhenEven ==
    HasDecoded =>
        /\ call.decoded.slice.data = call.bytes
        /\ call.decoded.slice.offset = (IF Bit16(call.bytes[1]) THEN 2 ELSE 1)
        /\ call.decoded.is_leaf <=> Bit32(call.bytes[1])

\* C16 amended: from_encoded(bytes) is a view over the same bytes that starts
\* at nibble 2 when bit 0x10 of byte 0 is clear (even length) and at nibble 1
\* when it is set (odd length, first nibble in the low half of byte 0), with
\* the leaf flag of bit 0x20; the bit is set exactly for an odd encoded view.
C16_OffsetTwoWhenEven ==
    HasDecoded =>
        /\ call.decoded.slice.data = call.bytes
        /\ call.decoded.slice.offset = (IF Bit16(call.bytes[1]) THEN 1 ELSE 2)
        /\ call.decoded.slice.data_encode_suffix = <<>>
        /\ call.decoded.slice.offset_encode_suffix = 0
        /\ call.decoded.is_leaf <=> Bit32(call.bytes[1])
        /\ (call.op = "from_encoded") =>
               (Bit16(call.bytes[1]) <=> (len(slice) % 2 = 1))

\* C16 witness: from_encoded of [0x30, 0x12]: odd and leaf, the view starts at
\* nibble 1 and holds 0, 1, 2.
C16_Witness ==
    /\ call.op = "from_bytes"
    /\ call.bytes = <<48, 18>>
    /\ call.decoded.slice.offset = 1
    /\ call.decoded.is_leaf
    /\ Nibbles(call.decoded.slice) = <<0, 1, 2>>

\* ------------------------------------------------------------------ C17
Compared == call.op = "partial_cmp"

\* s comes before t in the lexicographic order of sequences of numbers, a
\* proper prefix before what it is a prefix of.
LexLess(s, t) ==
    \E k \in 0 .. Min(Len(s), Len(t)) :
        /\ \A j \in 1 .. k : s[j] = t[j]
        /\ \/ k = Len(s) /\ k < Len(t)
           \/ k < Len(s) /\ k < Len(t) /\ s[k + 1] < t[k + 1]

\* a <= b, as PartialOrd derives it from partial_cmp.
Le(a, b) == partial_cmp(a, b) \in {"Less", "Equal"}

\* C17: partial_cmp is the lexicographic order of the nibbles, the shorter
\* view less when it is a prefix of the other; it is always defined,
\* antisymmetric up to ==, transitive, and Equal exactly when the views are
\* ==, that is of equal length with equal nibbles, whatever their buffers
\* and offsets.
C17_LexicographicTotalOrder ==
    Compared =>
        LET a == slice
            b == call.them
        IN /\ call.ordering \in {"Less", "Equal", "Greater"}
           /\ call.ordering = "Less" <=> LexLess(Nibbles(a), Nibbles(b))
           /\ call.ordering = "Greater" <=> LexLess(Nibbles(b), Nibbles(a))
           /\ call.ordering = "Equal" <=> Nibbles(a) = Nibbles(b)
           /\ call.ordering = "Equal" <=> call.equal
           /\ call.equal <=> (len(a) = len(b) /\ Nibbles(a) = Nibbles(b))
           /\ call.ordering = "Less" <=> call.reverse = "Greater"
           /\ call.ordering = "Equal" <=> call.reverse = "Equal"
           /\ (Le(a, b) /\ Le(b, a)) => eq(a, b)
           /\ Le(a, b) \/ Le(b, a)
           /\ \A c \in SmallViews :
                 /\ (Le(a, b) /\ Le(b, c)) => Le(a, c)
                 /\ (Le(c, a) /\ Le(a, b)) => Le(c, b)
                 /\ (Le(b, c) /\ Le(c, a)) => Le(b, a)

\* C17 witness: the view 1, 2 of [0x01, 0x12] from nibble 2 on has been
\* compared with the view 1, 2 of [0x12]: Equal and ==, over other bytes.
C17_Witness ==
    /\ Compared
    /\ slice = new_offset(<<1, 18>>, 2)
    /\ call.them = new_offset(<<18>>, 0)
    /\ call.ordering = "Equal"
    /\ call.equal

C19_CreateRootLeavesHeadAndLog ==
    [][Creates => /\ participant_head' = participant_head
                  /\ misbehaviour' = misbehaviour]_vars

\* C19 witness: a root was created while the owner had a head that is not
\* among the parents of the new root, which an ingest would have reported as
\* a fork attempt; the log is empty and the head is what it was.
C19_Witness ==
    /\ result.at = "created"
    /\ misbehaviour = <<>>
    /\ owner_uid \in DOMAIN participant_head
    /\ \E r \in roots :
          /\ r.data.body.owner_uid = owner_uid
          /\ r.data.body.parents # {}
          /\ participant_head[owner_uid] \notin r.data.body.parents
          /\ participant_head[owner_uid] # r.computed_hash

\* ------------------------------------------------------------------ C21
\* C21: a message whose body is stored in messages, under its locally
\* computed hash, is never processed again by add_existing_message, whatever
\* its hash field claims: the call returns at the presence test, appends no
\* violation, keeps participant_head, and puts no message that has a child
\* back into roots.
C21_DedupForEveryInput ==
    \A n \in messages :
        \A hash \in ClaimedHashes(n.data.body) :
            \A order \in Orders(n.data.body.parents) :
                LET message_data == SignedMessageData(hash, n.data.body)
                    out == add_existing_message(Self, message_data, order)
                IN /\ out.at = "known"
                   /\ out.self.misbehaviour = misbehaviour
                   /\ out.self.participant_head = participant_head
                   /\ \A r \in out.self.roots : HasChild(r) => r \in roots

\* ------------------------------------------------------------------ C22
\* The call taken in steps ends as the call taken whole: when the running
\* call returns, the DAG is what add_existing_message gives for the same
\* data on the DAG the call started from.
StepsAgreeWithCall ==
    [][(search.pc \in {"fork", "no_fork"} /\ search'.pc = "idle") =>
          LET message == search.message
              log0 == IF message.computed_epoch # message.data.body.epoch
                      THEN SubSeq(misbehaviour, 1, Len(misbehaviour) - 1)
                      ELSE misbehaviour
              order == [i \in DOMAIN search.parents |-> search.parents[i].computed_hash]
              out == add_existing_message([Self EXCEPT !.misbehaviour = log0],
                                          message.data, order)
          IN /\ out.at = "added"
             /\ out.self.arena = arena'
             /\ out.self.messages = messages'
             /\ out.self.roots = roots'
             /\ out.self.misbehaviour = misbehaviour'
             /\ out.self.participant_head = participant_head']_vars

\* C22: every call of add_existing_message terminates: a call that is inside
\* the loop of find_fork leaves it and returns, the loop never puts a node
\* back into the queue for ever.
C22_FindForkTerminates == (search.pc = "loop") ~> (search.pc = "idle")

\* C22 witness: a call has left the loop by the empty queue after walking
\* its one parent, a message of another participant.
C22_Witness ==
    /\ search.pc = "fork"
    /\ Len(search.parents) = 1
    /\ search.parents[1].data.body.owner_uid # search.uid
    /\ search.queue = <<>>
    /\ search.last_hash \notin search.visited

\* ------------------------------------------------------------------ C23
\* What the root queries say of a DAG is what its roots are.
QueriesReflectRoots(self) ==
    /\ has_dangling_roots(self) <=> Cardinality(self.roots) > 1
    /\ current_root_data(self) # {} <=> Cardinality(self.roots) = 1
    /\ is_current_owner_root(self) <=>
          /\ Cardinality(self.roots) = 1
          /\ \A r \in self.roots : r.data.body.owner_uid = self.owner_uid

\* The DAG has one root, of its owner.
OwnerRootAlone(self) == is_current_owner_root(self) /\ ~has_dangling_roots(self)

\* C23: in every state has_dangling_roots is |roots| > 1, current_root_data
\* is Some iff |roots| = 1 and is_current_owner_root is one root owned by
\* owner_uid; right after create_root_message is_current_owner_root holds
\* and has_dangling_roots does not, and this stays so until a new message
\* is ingested: over a call that adds no message to messages and over a
\* call that ingests nothing.
C23_RootQueries ==
    [][/\ QueriesReflectRoots(Self)
       /\ QueriesReflectRoots(Self')
       /\ Creates => OwnerRootAlone(Self')
       /\ (result.at = "created" /\ Hashes(messages') = Hashes(messages))
             => OwnerRootAlone(Self')
       /\ (OwnerRootAlone(Self) /\ result'.at # "added" /\ ~Creates)
             => OwnerRootAlone(Self')]_vars

\* ------------------------------------------------------------------ C24
\* C24: Ord::cmp of two views is the ordering that partial_cmp returns for
\* them, and it is Equal exactly when the views are ==.
C24_CmpAgreesWithPartialCmp ==
    Compared =>
        /\ call.total = call.ordering
        /\ call.total = "Equal" <=> call.equal

====
